---- MODULE Spec2Model ----
(***************************************************************************)
(* Lifetime normalization of bon-macros                                    *)
(* (bon-macros/src/normalization/lifetimes.rs).                            *)
(*                                                                         *)
(* The syntax tree is modelled by records.  Option<T> is a sequence of     *)
(* length at most one (<<>> is None, <<x>> is Some(x)); a lifetime is the  *)
(* string of its identifier ("_" is the anonymous lifetime).               *)
(***************************************************************************)
EXTENDS Integers, Sequences, FiniteSets, TLC

VARIABLES
    pc,                     \* position inside NormalizeLifetimes::visit_item_impl_mut
    impl_generics,          \* impl_block.generics.params
    self_ty,                \* impl_block.self_ty
    orig_impl_generics,     \* impl_block.generics.params as given (history)
    orig_self_ty,           \* impl_block.self_ty as given (history)
    item_index,             \* number of impl items already visited
    signature,              \* the signature being (or last) visited
    orig_signature,         \* that signature as given (history)
    next_lifetime_index,    \* AssignLifetimes::next_lifetime_index of the live allocator
    arg_index,              \* position of the loop / fold over signature.inputs
    acc,                    \* the LifetimeCollector accumulator of the fold
    elided_output_lifetime  \* Option<Lifetime> computed at lines 35-61

vars == <<pc, impl_generics, self_ty, orig_impl_generics, orig_self_ty, item_index,
          signature, orig_signature, next_lifetime_index, arg_index, acc,
          elided_output_lifetime>>

-----------------------------------------------------------------------------
(* Bounds *)

\* impl items (methods) visited per impl block
MaxItems == 2

-----------------------------------------------------------------------------
(* Syntax tree *)

None == <<>>
Some(x) == <<x>>
IsSome(o) == o # <<>>
Unwrap(o) == o[1]

\* syn::Type::Path whose last segment carries angle-bracketed lifetime arguments
TypePath(lts) == [k |-> "Path", lifetimes |-> lts]
\* syn::TypeReference { lifetime: Option<Lifetime>, elem }
TypeReference(lt, elem) == [k |-> "Reference", lifetime |-> lt, elem |-> elem]
\* syn::TypeBareFn: fn(inner)
TypeBareFn(inner) == [k |-> "BareFn", inner |-> inner]
\* a path whose arguments are syn::ParenthesizedGenericArguments: impl Fn(inner)
TypeParenthesized(inner) == [k |-> "Parenthesized", inner |-> inner]
\* a type embedding a nested syn::Item that mentions inner: [u8; { struct S(inner); 0 }]
TypeItem(inner) == [k |-> "Item", inner |-> inner]

OpaqueKinds == {"BareFn", "Parenthesized", "Item"}

\* syn::GenericParam
LifetimeParam(ident) == [k |-> "Lifetime", ident |-> ident]
TypeParam(ident) == [k |-> "Type", ident |-> ident]

\* syn::FnArg::Receiver { reference: Option<(And, Option<Lifetime>)>, colon_token, ty }
Receiver(reference, colon, ty) ==
    [k |-> "Receiver", reference |-> reference, colon_token |-> colon, ty |-> ty]
\* syn::FnArg::Typed(PatType { ty })
Typed(ty) == [k |-> "Typed", ty |-> ty]

\* syn::Signature { generics, inputs, output }
Signature(generics, inputs, output) ==
    [generics |-> generics, inputs |-> inputs, output |-> output]

\* LifetimeCollector
CollectorNone == [k |-> "None"]
CollectorSingle(lifetime) == [k |-> "Single", lifetime |-> lifetime]
CollectorMultiple == [k |-> "Multiple"]

-----------------------------------------------------------------------------
(* AssignLifetimes: the Region Allocator *)

\* the prefix of the allocator of visit_signature_mut (line 22)
SignaturePrefix == "f"

\* A plausible slip: the header's allocator is given the prefix of the signatures.
HeaderPrefix_Signature == "f"

\* the prefix of the allocator of visit_item_impl_mut (line 12)
HeaderPrefix == "i"

\* The state of one AssignLifetimes value; generics is the list it borrows.
AssignLifetimes_new(prefix, generics) ==
    [prefix |-> prefix, generics |-> generics, next_lifetime_index |-> 0]

\* Punctuated::insert(index, value), index counted from 0
Insert(params, index, value) ==
    SubSeq(params, 1, index) \o <<value>> \o SubSeq(params, index + 1, Len(params))

\* format!("'__{}{index}", prefix): the identifier without the leading quote
FormatLifetime(prefix, index) == "__" \o prefix \o ToString(index)

\* A plausible slip: the new parameter is pushed at the front of the list.
next_lifetime_InsertFront(v) ==
    LET index == v.next_lifetime_index
        lifetime == FormatLifetime(v.prefix, index)
    IN  [lifetime |-> lifetime,
         v |-> [v EXCEPT !.next_lifetime_index = index + 1,
                         !.generics = Insert(@, 0, LifetimeParam(lifetime))]]

\* AssignLifetimes::next_lifetime
next_lifetime(v) ==
    LET index == v.next_lifetime_index
        lifetime == FormatLifetime(v.prefix, index)
    IN  [lifetime |-> lifetime,
         v |-> [v EXCEPT !.next_lifetime_index = index + 1,
                         !.generics = Insert(@, index, LifetimeParam(lifetime))]]

\* A plausible slip: the anonymous lifetime is left as it is.
AssignLifetimes_visit_lifetime_mut_Keep(v, lifetime) == [v |-> v, node |-> lifetime]

\* A plausible slip: the test for '_ is missing, every written lifetime gets a
\* generated name.
AssignLifetimes_visit_lifetime_mut_Always(v, lifetime) ==
    LET n == next_lifetime(v) IN [v |-> n.v, node |-> n.lifetime]

\* AssignLifetimes::visit_lifetime_mut
AssignLifetimes_visit_lifetime_mut(v, lifetime) ==
    IF lifetime = "_"
    THEN LET n == next_lifetime(v) IN [v |-> n.v, node |-> n.lifetime]
    ELSE [v |-> v, node |-> lifetime]

\* the default walk over the lifetime arguments of a path, in order
RECURSIVE AssignLifetimes_visit_path_arguments_mut(_, _)
AssignLifetimes_visit_path_arguments_mut(v, lifetimes) ==
    IF lifetimes = <<>>
    THEN [v |-> v, node |-> <<>>]
    ELSE LET head == AssignLifetimes_visit_lifetime_mut(v, Head(lifetimes))
             rest == AssignLifetimes_visit_path_arguments_mut(head.v, Tail(lifetimes))
         IN  [v |-> rest.v, node |-> <<head.node>> \o rest.node]

RECURSIVE AssignLifetimes_visit_type_mut(_, _)

\* A plausible slip: insert in place of get_or_insert_with.
AssignLifetimes_visit_type_reference_mut_Insert(v, reference) ==
    LET lt == IF IsSome(reference.lifetime)
              THEN LET r == AssignLifetimes_visit_lifetime_mut(v, Unwrap(reference.lifetime))
                   IN  [v |-> r.v, node |-> Some(r.node)]
              ELSE [v |-> v, node |-> None]
        elem == AssignLifetimes_visit_type_mut(lt.v, reference.elem)
        n == next_lifetime(elem.v)
    IN  [v |-> n.v, node |-> TypeReference(Some(n.lifetime), elem.node)]

\* A plausible slip: get_or_insert_with is missing, only a written '_ is named.
AssignLifetimes_visit_type_reference_mut_NoInsert(v, reference) ==
    LET lt == IF IsSome(reference.lifetime)
              THEN LET r == AssignLifetimes_visit_lifetime_mut(v, Unwrap(reference.lifetime))
                   IN  [v |-> r.v, node |-> Some(r.node)]
              ELSE [v |-> v, node |-> None]
        elem == AssignLifetimes_visit_type_mut(lt.v, reference.elem)
    IN  [v |-> elem.v, node |-> TypeReference(lt.node, elem.node)]

\* AssignLifetimes::visit_type_reference_mut: the default walk (the lifetime
\* when present, then the element), then get_or_insert_with
AssignLifetimes_visit_type_reference_mut(v, reference) ==
    LET lt == IF IsSome(reference.lifetime)
              THEN LET r == AssignLifetimes_visit_lifetime_mut(v, Unwrap(reference.lifetime))
                   IN  [v |-> r.v, node |-> Some(r.node)]
              ELSE [v |-> v, node |-> None]
        elem == AssignLifetimes_visit_type_mut(lt.v, reference.elem)
        ins == IF IsSome(lt.node)
               THEN [v |-> elem.v, node |-> lt.node]
               ELSE LET n == next_lifetime(elem.v) IN [v |-> n.v, node |-> Some(n.lifetime)]
    IN  [v |-> ins.v, node |-> TypeReference(ins.node, elem.node)]

\* A plausible slip: the override is missing and the default walk descends.
AssignLifetimes_visit_type_bare_fn_mut_Descend(v, bare_fn) ==
    LET r == AssignLifetimes_visit_type_mut(v, bare_fn.inner)
    IN  [v |-> r.v, node |-> TypeBareFn(r.node)]

\* AssignLifetimes::visit_type_bare_fn_mut: function pointers are skipped
AssignLifetimes_visit_type_bare_fn_mut(v, bare_fn) == [v |-> v, node |-> bare_fn]

\* AssignLifetimes::visit_parenthesized_generic_arguments_mut: Fn traits are skipped
AssignLifetimes_visit_parenthesized_generic_arguments_mut(v, args) ==
    [v |-> v, node |-> args]

\* AssignLifetimes::visit_item_mut: nested items are skipped
AssignLifetimes_visit_item_mut(v, item) == [v |-> v, node |-> item]

\* syn::visit_mut::visit_type_mut dispatching to the methods of AssignLifetimes
AssignLifetimes_visit_type_mut(v, ty) ==
    CASE ty.k = "Reference" -> AssignLifetimes_visit_type_reference_mut(v, ty)
      [] ty.k = "Path" ->
            LET r == AssignLifetimes_visit_path_arguments_mut(v, ty.lifetimes)
            IN  [v |-> r.v, node |-> TypePath(r.node)]
      [] ty.k = "BareFn" -> AssignLifetimes_visit_type_bare_fn_mut(v, ty)
      [] ty.k = "Parenthesized" ->
            AssignLifetimes_visit_parenthesized_generic_arguments_mut(v, ty)
      [] ty.k = "Item" -> AssignLifetimes_visit_item_mut(v, ty)

\* A plausible slip: the sugar form is visited like self: T, its own slot forgotten.
AssignLifetimes_visit_receiver_mut_Unaliased(v, receiver) ==
    LET r == AssignLifetimes_visit_type_mut(v, receiver.ty)
    IN  [v |-> r.v, node |-> [receiver EXCEPT !.ty = r.node]]

\* AssignLifetimes::visit_receiver_mut
AssignLifetimes_visit_receiver_mut(v, receiver) ==
    IF receiver.colon_token
    THEN LET r == AssignLifetimes_visit_type_mut(v, receiver.ty)
         IN  [v |-> r.v, node |-> [receiver EXCEPT !.ty = r.node]]
    ELSE IF receiver.reference = None
    THEN [v |-> v, node |-> receiver]
    ELSE LET lifetime == Unwrap(receiver.reference) IN
         IF IsSome(lifetime) /\ Unwrap(lifetime) # "_"
         THEN [v |-> v, node |-> receiver]
         ELSE IF receiver.ty.k # "Reference"
         THEN [v |-> v, node |-> receiver]
         ELSE LET n == next_lifetime(v)
              IN  [v |-> n.v,
                   node |-> [receiver EXCEPT !.reference = Some(Some(n.lifetime)),
                                             !.ty.lifetime = Some(n.lifetime)]]

\* syn::visit_mut::visit_fn_arg_mut
AssignLifetimes_visit_fn_arg_mut(v, arg) ==
    IF arg.k = "Receiver"
    THEN AssignLifetimes_visit_receiver_mut(v, arg)
    ELSE LET r == AssignLifetimes_visit_type_mut(v, arg.ty)
         IN  [v |-> r.v, node |-> Typed(r.node)]

-----------------------------------------------------------------------------
(* LifetimeCollector: the Region Collector *)

\* A plausible slip: a second lifetime does not leave Single.
LifetimeCollector_visit_lifetime_KeepFirst(self, lifetime) ==
    CASE self.k = "None" -> CollectorSingle(lifetime)
      [] self.k = "Single" -> self
      [] self.k = "Multiple" -> self

\* A plausible slip: a second occurrence of the lifetime already held is not
\* counted, the collector compares names.
LifetimeCollector_visit_lifetime_Distinct(self, lifetime) ==
    CASE self.k = "None" -> CollectorSingle(lifetime)
      [] self.k = "Single" -> IF self.lifetime = lifetime THEN self ELSE CollectorMultiple
      [] self.k = "Multiple" -> self

\* LifetimeCollector::visit_lifetime
LifetimeCollector_visit_lifetime(self, lifetime) ==
    CASE self.k = "None" -> CollectorSingle(lifetime)
      [] self.k = "Single" -> CollectorMultiple
      [] self.k = "Multiple" -> self

RECURSIVE LifetimeCollector_visit_path_arguments(_, _)
LifetimeCollector_visit_path_arguments(self, lifetimes) ==
    IF lifetimes = <<>>
    THEN self
    ELSE LifetimeCollector_visit_path_arguments(
             LifetimeCollector_visit_lifetime(self, Head(lifetimes)), Tail(lifetimes))

\* LifetimeCollector::visit_type_bare_fn: function pointers are skipped
LifetimeCollector_visit_type_bare_fn(self, bare_fn) == self

\* LifetimeCollector::visit_parenthesized_generic_arguments: Fn traits are skipped
LifetimeCollector_visit_parenthesized_generic_arguments(self, args) == self

\* LifetimeCollector::visit_item: nested items are skipped
LifetimeCollector_visit_item(self, item) == self

\* syn::visit::visit_type dispatching to the methods of LifetimeCollector; the
\* default visit_type_reference visits the lifetime when present, then the element
RECURSIVE LifetimeCollector_visit_type(_, _)
LifetimeCollector_visit_type(self, ty) ==
    CASE ty.k = "Reference" ->
            LifetimeCollector_visit_type(
                IF IsSome(ty.lifetime)
                THEN LifetimeCollector_visit_lifetime(self, Unwrap(ty.lifetime))
                ELSE self,
                ty.elem)
      [] ty.k = "Path" -> LifetimeCollector_visit_path_arguments(self, ty.lifetimes)
      [] ty.k = "BareFn" -> LifetimeCollector_visit_type_bare_fn(self, ty)
      [] ty.k = "Parenthesized" ->
            LifetimeCollector_visit_parenthesized_generic_arguments(self, ty)
      [] ty.k = "Item" -> LifetimeCollector_visit_item(self, ty)

\* syn::visit::visit_pat_type
LifetimeCollector_visit_pat_type(self, pat_type) ==
    LifetimeCollector_visit_type(self, pat_type.ty)

-----------------------------------------------------------------------------
(* ElideOutputLifetime: the Output Region Elider *)

\* A plausible slip: the anonymous lifetime is left as it is.
ElideOutputLifetime_visit_lifetime_mut_Keep(elided_lifetime, lifetime) == lifetime

\* A plausible slip: the test for '_ is missing, every written lifetime of the
\* return type is overwritten.
ElideOutputLifetime_visit_lifetime_mut_Overwrite(elided_lifetime, lifetime) ==
    elided_lifetime

\* ElideOutputLifetime::visit_lifetime_mut
ElideOutputLifetime_visit_lifetime_mut(elided_lifetime, lifetime) ==
    IF lifetime = "_" THEN elided_lifetime ELSE lifetime

RECURSIVE ElideOutputLifetime_visit_type_mut(_, _)

\* ElideOutputLifetime::visit_type_reference_mut
ElideOutputLifetime_visit_type_reference_mut(elided_lifetime, reference) ==
    LET lt == IF IsSome(reference.lifetime)
              THEN Some(ElideOutputLifetime_visit_lifetime_mut(
                            elided_lifetime, Unwrap(reference.lifetime)))
              ELSE None
        elem == ElideOutputLifetime_visit_type_mut(elided_lifetime, reference.elem)
    IN  TypeReference(IF IsSome(lt) THEN lt ELSE Some(elided_lifetime), elem)

\* ElideOutputLifetime::visit_type_bare_fn_mut: function pointers are skipped
ElideOutputLifetime_visit_type_bare_fn_mut(elided_lifetime, bare_fn) == bare_fn

\* ElideOutputLifetime::visit_parenthesized_generic_arguments_mut: Fn traits are skipped
ElideOutputLifetime_visit_parenthesized_generic_arguments_mut(elided_lifetime, args) ==
    args

\* ElideOutputLifetime::visit_item_mut: nested items are skipped
ElideOutputLifetime_visit_item_mut(elided_lifetime, item) == item

\* syn::visit_mut::visit_type_mut dispatching to the methods of ElideOutputLifetime
ElideOutputLifetime_visit_type_mut(elided_lifetime, ty) ==
    CASE ty.k = "Reference" ->
            ElideOutputLifetime_visit_type_reference_mut(elided_lifetime, ty)
      [] ty.k = "Path" ->
            TypePath([i \in 1..Len(ty.lifetimes) |->
                ElideOutputLifetime_visit_lifetime_mut(elided_lifetime, ty.lifetimes[i])])
      [] ty.k = "BareFn" -> ElideOutputLifetime_visit_type_bare_fn_mut(elided_lifetime, ty)
      [] ty.k = "Parenthesized" ->
            ElideOutputLifetime_visit_parenthesized_generic_arguments_mut(elided_lifetime, ty)
      [] ty.k = "Item" -> ElideOutputLifetime_visit_item_mut(elided_lifetime, ty)

-----------------------------------------------------------------------------
(* NormalizeLifetimes::visit_signature_mut, lines 35-46: the receiver lookup *)

\* syn::Receiver::lifetime
Receiver_lifetime(receiver) ==
    IF receiver.reference = None THEN None ELSE Unwrap(receiver.reference)

\* A plausible slip: the receiver is never asked, only the collector.
ReceiverLookup_Skip(inputs) == None

\* A plausible slip: only receiver.lifetime() is asked, the fallback on the
\* receiver's type (lines 40-45) is missing.
ReceiverLookup_SugarOnly(inputs) ==
    IF inputs = <<>> \/ inputs[1].k # "Receiver"
    THEN None
    ELSE Receiver_lifetime(inputs[1])

\* inputs.first().and_then(|arg| ...)
ReceiverLookup(inputs) ==
    IF inputs = <<>> \/ inputs[1].k # "Receiver"
    THEN None
    ELSE LET receiver == inputs[1] IN
         IF IsSome(Receiver_lifetime(receiver))
         THEN Receiver_lifetime(receiver)
         ELSE IF receiver.ty.k = "Reference" THEN receiver.ty.lifetime ELSE None

-----------------------------------------------------------------------------
(* The declarations the pass is run on *)

UnitType == TypePath(<<>>)

\* &u8  &'_ u8  &'a u8  &'b u8
SimpleReferences ==
    {TypeReference(lt, UnitType) : lt \in {None, Some("_"), Some("a"), Some("b")}}

\* a reference to a reference, and a reference to a path with a lifetime argument
NestedReferences ==
    {TypeReference(outer, TypeReference(inner, UnitType)) :
        outer \in {None, Some("_"), Some("a")}, inner \in {None, Some("_"), Some("a"), Some("b")}}
    \cup {TypeReference(outer, TypePath(<<inner>>)) :
        outer \in {None, Some("a")}, inner \in {"_", "b"}}

\* u8  Foo<'_>  Foo<'a>  Foo<'_, '_>
PathTypes == {UnitType, TypePath(<<"_">>), TypePath(<<"a">>), TypePath(<<"_", "_">>)}

\* fn(&'_ u8), impl Fn(&u8), a nested item, and references to them
OpaqueTypes ==
    {[k |-> kind, inner |-> TypeReference(lt, UnitType)] :
        kind \in OpaqueKinds, lt \in {None, Some("_"), Some("a")}}
    \cup {TypeReference(lt, TypeBareFn(TypeReference(Some("_"), UnitType))) :
        lt \in {None, Some("_"), Some("a")}}

Types == SimpleReferences \cup NestedReferences \cup PathTypes \cup OpaqueTypes

\* the types of the parameters of a signature with two typed parameters
PairTypes ==
    SimpleReferences \cup {UnitType, TypeBareFn(TypeReference(Some("_"), UnitType))}

\* self   &self   &'_ self   &'a self   self: &Self   self: &'a Self   self: Foo<'_>
\* (syn parses the sugar form into reference plus ty = &Self with the same lifetime)
Receivers ==
    {Receiver(None, FALSE, UnitType)}
    \cup {Receiver(Some(lt), FALSE, TypeReference(lt, UnitType)) :
            lt \in {None, Some("_"), Some("a")}}
    \cup {Receiver(None, TRUE, ty) :
            ty \in {TypeReference(None, UnitType), TypeReference(Some("a"), UnitType),
                    TypePath(<<"_">>)}}

TypedLists ==
    {<<>>} \cup {<<Typed(t)>> : t \in Types}
    \cup {<<Typed(t), Typed(u)>> : t \in PairTypes, u \in PairTypes}

InputLists == TypedLists \cup {<<r>> \o l : r \in Receivers, l \in TypedLists}

\* no return type, u8, &u8, &'_ u8, &'b Foo<'_>, &'_ fn(&'_ u8), impl Fn(&u8)
OutputTypes ==
    {None} \cup {Some(t) : t \in
        {UnitType, TypeReference(None, UnitType), TypeReference(Some("_"), UnitType),
         TypeReference(Some("b"), TypePath(<<"_">>)),
         TypeReference(Some("_"), TypeBareFn(TypeReference(Some("_"), UnitType))),
         TypeParenthesized(TypeReference(None, UnitType))}}

\* <>   <'a, T>   <'__f0> (a lifetime the user named like a generated one)
GenericsLists ==
    {<<>>, <<LifetimeParam("a"), TypeParam("T")>>, <<LifetimeParam("__f0")>>}

Signatures ==
    {Signature(g, i, o) : g \in GenericsLists, i \in InputLists, o \in OutputTypes}

\* Foo   &'_ Foo   &'a &Foo   fn(&'_ u8)   &'_ fn(&'_ u8)
SelfTypes ==
    {UnitType, TypeReference(Some("_"), UnitType),
     TypeReference(Some("a"), TypeReference(None, UnitType)),
     TypeBareFn(TypeReference(Some("_"), UnitType)),
     TypeReference(Some("_"), TypeBareFn(TypeReference(Some("_"), UnitType)))}

ImplGenerics == <<LifetimeParam("a"), TypeParam("T")>>

NoSignature == Signature(<<>>, <<>>, None)

-----------------------------------------------------------------------------
(* NormalizeLifetimes *)

Init ==
    /\ pc = "impl_items"
    /\ self_ty \in SelfTypes
    /\ impl_generics = ImplGenerics
    /\ orig_self_ty = self_ty
    /\ orig_impl_generics = impl_generics
    /\ item_index = 0
    /\ signature = NoSignature
    /\ orig_signature = NoSignature
    /\ next_lifetime_index = 0
    /\ arg_index = 0
    /\ acc = CollectorNone
    /\ elided_output_lifetime = None

header == <<impl_generics, self_ty, orig_impl_generics, orig_self_ty>>

\* the AssignLifetimes value of visit_signature_mut (line 22)
visitor == [prefix |-> SignaturePrefix, generics |-> signature.generics,
            next_lifetime_index |-> next_lifetime_index]

\* syn::visit_mut::visit_item_impl_mut reaches the next ImplItem::Fn;
\* visit_impl_item_fn_mut enters visit_signature_mut, which makes its allocator
VisitImplItemFn ==
    /\ pc = "impl_items"
    /\ item_index < MaxItems
    /\ \E sig \in Signatures :
        /\ signature' = sig
        /\ orig_signature' = sig
        /\ next_lifetime_index' = AssignLifetimes_new(SignaturePrefix, sig.generics).next_lifetime_index
    /\ arg_index' = 1
    /\ acc' = CollectorNone
    /\ elided_output_lifetime' = None
    /\ pc' = "inputs"
    /\ UNCHANGED <<header, item_index>>

\* lines 23-25: one iteration of the loop over signature.inputs
VisitFnArg ==
    /\ pc = "inputs"
    /\ arg_index <= Len(signature.inputs)
    /\ LET r == AssignLifetimes_visit_fn_arg_mut(visitor, signature.inputs[arg_index])
       IN  /\ signature' = [signature EXCEPT !.inputs[arg_index] = r.node,
                                             !.generics = r.v.generics]
           /\ next_lifetime_index' = r.v.next_lifetime_index
    /\ arg_index' = arg_index + 1
    /\ UNCHANGED <<header, pc, item_index, orig_signature, acc, elided_output_lifetime>>

\* lines 27-29: no return type, visit_signature_mut returns
ReturnDefault ==
    /\ pc = "inputs"
    /\ arg_index > Len(signature.inputs)
    /\ signature.output = None
    /\ pc' = "return"
    /\ UNCHANGED <<header, item_index, signature, orig_signature, next_lifetime_index,
                   arg_index, acc, elided_output_lifetime>>

\* lines 35-46: the receiver yields the elided output lifetime
ReceiverLifetime ==
    /\ pc = "inputs"
    /\ arg_index > Len(signature.inputs)
    /\ signature.output # None
    /\ IsSome(ReceiverLookup(signature.inputs))
    /\ elided_output_lifetime' = ReceiverLookup(signature.inputs)
    /\ pc' = "elide"
    /\ UNCHANGED <<header, item_index, signature, orig_signature, next_lifetime_index,
                   arg_index, acc>>

\* lines 47-52: the receiver yields nothing, the fold over the typed inputs starts
StartCollector ==
    /\ pc = "inputs"
    /\ arg_index > Len(signature.inputs)
    /\ signature.output # None
    /\ ReceiverLookup(signature.inputs) = None
    /\ acc' = CollectorNone
    /\ arg_index' = 1
    /\ pc' = "collect"
    /\ UNCHANGED <<header, item_index, signature, orig_signature, next_lifetime_index,
                   elided_output_lifetime>>

\* lines 51-55: one step of the fold; filter_map(as_typed) drops a receiver
CollectFnArg ==
    /\ pc = "collect"
    /\ arg_index <= Len(signature.inputs)
    /\ acc' = IF signature.inputs[arg_index].k = "Typed"
              THEN LifetimeCollector_visit_pat_type(acc, signature.inputs[arg_index])
              ELSE acc
    /\ arg_index' = arg_index + 1
    /\ UNCHANGED <<header, pc, item_index, signature, orig_signature,
                   next_lifetime_index, elided_output_lifetime>>

\* A plausible slip: the Single arm is lost.
CollectorResult_Drop(collector) == None

\* lines 57-60: the result of the fold
CollectorResult(collector) ==
    IF collector.k = "Single" THEN Some(collector.lifetime) ELSE None

MatchCollector ==
    /\ pc = "collect"
    /\ arg_index > Len(signature.inputs)
    /\ elided_output_lifetime' = CollectorResult(acc)
    /\ pc' = "elide"
    /\ UNCHANGED <<header, item_index, signature, orig_signature, next_lifetime_index,
                   arg_index, acc>>

\* A plausible slip: without a candidate the return type is not left alone but
\* filled with 'static.
NoElidedLifetime_Static ==
    /\ pc = "elide"
    /\ elided_output_lifetime = None
    /\ signature' = [signature EXCEPT !.output = Some(
            ElideOutputLifetime_visit_type_mut("static", Unwrap(@)))]
    /\ pc' = "return"
    /\ UNCHANGED <<header, item_index, orig_signature, next_lifetime_index, arg_index,
                   acc, elided_output_lifetime>>

\* lines 63-65: no elided lifetime, visit_signature_mut returns
NoElidedLifetime ==
    /\ pc = "elide"
    /\ elided_output_lifetime = None
    /\ pc' = "return"
    /\ UNCHANGED <<header, item_index, signature, orig_signature, next_lifetime_index,
                   arg_index, acc, elided_output_lifetime>>

\* line 67: ElideOutputLifetime over the return type
ElideOutput ==
    /\ pc = "elide"
    /\ elided_output_lifetime # None
    /\ signature' = [signature EXCEPT !.output = Some(
            ElideOutputLifetime_visit_type_mut(Unwrap(elided_output_lifetime), Unwrap(@)))]
    /\ pc' = "return"
    /\ UNCHANGED <<header, item_index, orig_signature, next_lifetime_index, arg_index,
                   acc, elided_output_lifetime>>

\* visit_signature_mut has returned: the walk over impl_block.items moves on
\* (the model keeps only the signature being visited)
NextImplItem ==
    /\ pc = "return"
    /\ pc' = "impl_items"
    /\ item_index' = item_index + 1
    /\ signature' = NoSignature
    /\ orig_signature' = NoSignature
    /\ next_lifetime_index' = 0
    /\ arg_index' = 0
    /\ acc' = CollectorNone
    /\ elided_output_lifetime' = None
    /\ UNCHANGED header

\* A plausible slip: line 12 moved before line 10, the header's allocator runs
\* before the walk over the items.
AssignSelfTy_BeforeItems ==
    /\ pc = "impl_items"
    /\ item_index = 0
    /\ LET r == AssignLifetimes_visit_type_mut(
                    AssignLifetimes_new(HeaderPrefix, impl_generics), self_ty)
       IN  /\ self_ty' = r.node
           /\ impl_generics' = r.v.generics
    /\ UNCHANGED <<pc, orig_impl_generics, orig_self_ty, item_index, signature,
                   orig_signature, next_lifetime_index, arg_index, acc,
                   elided_output_lifetime>>

\* line 12: after the items, the header's allocator visits impl_block.self_ty
AssignSelfTy ==
    /\ pc = "impl_items"
    /\ LET r == AssignLifetimes_visit_type_mut(
                    AssignLifetimes_new(HeaderPrefix, impl_generics), self_ty)
       IN  /\ self_ty' = r.node
           /\ impl_generics' = r.v.generics
           /\ next_lifetime_index' = r.v.next_lifetime_index
    /\ pc' = "done"
    /\ UNCHANGED <<orig_impl_generics, orig_self_ty, item_index, signature,
                   orig_signature, arg_index, acc, elided_output_lifetime>>

\* lines 22-25 in one piece: the allocator over all of the inputs, in order
RECURSIVE AssignInputs(_, _)
AssignInputs(v, inputs) ==
    IF inputs = <<>>
    THEN [v |-> v, node |-> <<>>]
    ELSE LET first == AssignLifetimes_visit_fn_arg_mut(v, Head(inputs))
             rest == AssignInputs(first.v, Tail(inputs))
         IN  [v |-> rest.v, node |-> <<first.node>> \o rest.node]

\* lines 48-55 in one piece: the fold of the collector over the typed inputs
RECURSIVE CollectInputs(_, _)
CollectInputs(collector, inputs) ==
    IF inputs = <<>>
    THEN collector
    ELSE CollectInputs(
            IF Head(inputs).k = "Typed"
            THEN LifetimeCollector_visit_pat_type(collector, Head(inputs))
            ELSE collector,
            Tail(inputs))

\* NormalizeLifetimes::visit_signature_mut as a function of the signature
visit_signature_mut(sig) ==
    LET assigned == AssignInputs(AssignLifetimes_new(SignaturePrefix, sig.generics),
                                 sig.inputs)
        allocated == Signature(assigned.v.generics, assigned.node, sig.output)
        elided == IF IsSome(ReceiverLookup(allocated.inputs))
                  THEN ReceiverLookup(allocated.inputs)
                  ELSE CollectorResult(CollectInputs(CollectorNone, allocated.inputs))
    IN  IF sig.output = None \/ elided = None
        THEN allocated
        ELSE [allocated EXCEPT !.output = Some(
                ElideOutputLifetime_visit_type_mut(Unwrap(elided), Unwrap(@)))]

Next ==
    \/ VisitImplItemFn
    \/ VisitFnArg
    \/ ReturnDefault
    \/ ReceiverLifetime
    \/ StartCollector
    \/ CollectFnArg
    \/ MatchCollector
    \/ NoElidedLifetime
    \/ ElideOutput
    \/ NextImplItem
    \/ AssignSelfTy

Spec == Init /\ [][Next]_vars

-----------------------------------------------------------------------------
(* Vocabulary of the properties *)

\* a lifetime slot that carries a named lifetime
NamedSlot(slot) == IsSome(slot) /\ Unwrap(slot) # "_"

\* no anonymous or omitted lifetime in ty outside function pointers,
\* parenthesized generic arguments and nested items
RECURSIVE Resolved(_)
Resolved(ty) ==
    CASE ty.k = "Reference" -> NamedSlot(ty.lifetime) /\ Resolved(ty.elem)
      [] ty.k = "Path" -> \A i \in 1..Len(ty.lifetimes) : ty.lifetimes[i] # "_"
      [] ty.k \in OpaqueKinds -> TRUE

ResolvedArg(arg) ==
    /\ Resolved(arg.ty)
    /\ (arg.k = "Receiver" /\ arg.reference # None) => NamedSlot(Unwrap(arg.reference))

\* the number of anonymous or omitted lifetimes of ty outside the opaque boundaries
RECURSIVE Unresolved(_)
Unresolved(ty) ==
    CASE ty.k = "Reference" ->
            (IF NamedSlot(ty.lifetime) THEN 0 ELSE 1) + Unresolved(ty.elem)
      [] ty.k = "Path" -> Cardinality({i \in 1..Len(ty.lifetimes) : ty.lifetimes[i] = "_"})
      [] ty.k \in OpaqueKinds -> 0

\* the opaque subtrees of ty, outermost first
RECURSIVE Opaques(_)
Opaques(ty) ==
    CASE ty.k = "Reference" -> Opaques(ty.elem)
      [] ty.k = "Path" -> <<>>
      [] ty.k \in OpaqueKinds -> <<ty>>

\* ty with the content of its opaque subtrees replaced by u8
RECURSIVE Strip(_)
Strip(ty) ==
    CASE ty.k = "Reference" -> TypeReference(ty.lifetime, Strip(ty.elem))
      [] ty.k = "Path" -> ty
      [] ty.k \in OpaqueKinds -> [ty EXCEPT !.inner = UnitType]

StripArg(arg) == [arg EXCEPT !.ty = Strip(@)]

\* the number of lifetime slots of ty outside the opaque boundaries: the references
\* (with or without a lifetime) and the lifetime arguments of paths
RECURSIVE Slots(_)
Slots(ty) ==
    CASE ty.k = "Reference" -> 1 + Slots(ty.elem)
      [] ty.k = "Path" -> Len(ty.lifetimes)
      [] ty.k \in OpaqueKinds -> 0

\* the typed parameters of an input list: filter_map(syn::FnArg::as_typed)
TypedInputs(inputs) == SelectSeq(inputs, LAMBDA arg : arg.k = "Typed")

\* the number of references with the anonymous lifetime anywhere in ty
RECURSIVE AnonymousReferences(_)
AnonymousReferences(ty) ==
    CASE ty.k = "Reference" ->
            (IF ty.lifetime = Some("_") THEN 1 ELSE 0) + AnonymousReferences(ty.elem)
      [] ty.k = "Path" -> 0
      [] ty.k \in OpaqueKinds -> AnonymousReferences(ty.inner)

\* the number of anonymous or omitted lifetimes anywhere in ty
RECURSIVE UnresolvedAnywhere(_)
UnresolvedAnywhere(ty) ==
    CASE ty.k = "Reference" ->
            (IF NamedSlot(ty.lifetime) THEN 0 ELSE 1) + UnresolvedAnywhere(ty.elem)
      [] ty.k = "Path" -> Cardinality({i \in 1..Len(ty.lifetimes) : ty.lifetimes[i] = "_"})
      [] ty.k \in OpaqueKinds -> UnresolvedAnywhere(ty.inner)

\* the number of references with the anonymous lifetime outside the opaque boundaries
RECURSIVE AnonymousReferencesOutside(_)
AnonymousReferencesOutside(ty) ==
    CASE ty.k = "Reference" ->
            (IF ty.lifetime = Some("_") THEN 1 ELSE 0) + AnonymousReferencesOutside(ty.elem)
      [] ty.k = "Path" -> 0
      [] ty.k \in OpaqueKinds -> 0

\* the lifetimes of the references of ty, anywhere in it
RECURSIVE ReferenceLifetimes(_)
ReferenceLifetimes(ty) ==
    CASE ty.k = "Reference" -> {ty.lifetime} \cup ReferenceLifetimes(ty.elem)
      [] ty.k = "Path" -> {}
      [] ty.k \in OpaqueKinds -> ReferenceLifetimes(ty.inner)

\* the lifetimes written in ty outside the opaque boundaries
RECURSIVE WrittenLifetimes(_)
WrittenLifetimes(ty) ==
    CASE ty.k = "Reference" ->
            (IF IsSome(ty.lifetime) THEN {Unwrap(ty.lifetime)} ELSE {})
                \cup WrittenLifetimes(ty.elem)
      [] ty.k = "Path" -> {ty.lifetimes[i] : i \in 1..Len(ty.lifetimes)}
      [] ty.k \in OpaqueKinds -> {}

\* new is old with every anonymous or omitted lifetime outside the opaque
\* boundaries set to lifetime, and nothing else changed
RECURSIVE FilledWith(_, _, _)
FilledWith(new, old, lifetime) ==
    /\ new.k = old.k
    /\ CASE old.k = "Reference" ->
                /\ new.lifetime = IF NamedSlot(old.lifetime) THEN old.lifetime
                                  ELSE Some(lifetime)
                /\ FilledWith(new.elem, old.elem, lifetime)
         [] old.k = "Path" ->
                /\ Len(new.lifetimes) = Len(old.lifetimes)
                /\ \A i \in 1..Len(old.lifetimes) :
                        new.lifetimes[i] = IF old.lifetimes[i] = "_" THEN lifetime
                                           ELSE old.lifetimes[i]
         [] old.k \in OpaqueKinds -> new = old

InSignature == pc \in {"inputs", "collect", "elide", "return"}

\* how many of signature.inputs the allocator has visited
VisitedInputs ==
    IF pc = "inputs" THEN arg_index - 1
    ELSE IF InSignature THEN Len(signature.inputs) ELSE 0

\* the reference type of an argument: the receiver's ty or the parameter's ty
IsSugarReceiver(arg) == arg.k = "Receiver" /\ ~arg.colon_token /\ arg.reference # None
IsReferenceReceiver(arg) == arg.k = "Receiver" /\ arg.ty.k = "Reference"
IsTypedReference(arg) == arg.k = "Typed" /\ arg.ty.k = "Reference"
IsAnonymousReference(output) ==
    IsSome(output) /\ Unwrap(output).k = "Reference" /\ Unwrap(output).lifetime = Some("_")

\* the anonymous or omitted lifetime references of an argument; &self and its
\* type &Self are one reference
UnresolvedArg(arg) ==
    IF IsSugarReceiver(arg)
    THEN IF NamedSlot(Unwrap(arg.reference)) THEN 0 ELSE 1
    ELSE Unresolved(arg.ty)

\* the same, summed over the first n arguments
RECURSIVE UnresolvedInputs(_, _)
UnresolvedInputs(inputs, n) ==
    IF n = 0 THEN 0 ELSE UnresolvedInputs(inputs, n - 1) + UnresolvedArg(inputs[n])

\* the parameters the k first allocations of an allocator with this prefix put
\* before the parameters that were there
GeneratedBefore(prefix, k, generics) ==
    [i \in 1..k |-> LifetimeParam(FormatLifetime(prefix, i - 1))] \o generics

-----------------------------------------------------------------------------
(* Properties *)

\* C1: once the allocator has visited a receiver, a parameter or the self type,
\* every lifetime slot of it outside function pointers, parenthesized generic
\* arguments and nested items carries a named lifetime: none is '_ or omitted.
C1_NoAnonymousAfterAllocation ==
    /\ \A i \in 1..VisitedInputs : ResolvedArg(signature.inputs[i])
    /\ pc = "done" => Resolved(self_ty)

\* fn f(&self, x: & &'_ u8): both arguments visited
C1_Witness ==
    /\ pc = "inputs"
    /\ arg_index = 3
    /\ orig_signature.inputs =
        <<Receiver(Some(None), FALSE, TypeReference(None, UnitType)),
          Typed(TypeReference(None, TypeReference(Some("_"), UnitType)))>>
    /\ ResolvedArg(signature.inputs[1])
    /\ ResolvedArg(signature.inputs[2])

\* C2: with a by-reference receiver first, one typed reference parameter of another
\* lifetime and a return type &'_ T, the returned reference gets the receiver's
\* lifetime (as allocated), not the parameter's, and the collector is never run.
C2_ReceiverPrecedence ==
    (/\ InSignature
     /\ Len(signature.inputs) = 2
     /\ IsReferenceReceiver(orig_signature.inputs[1])
     /\ IsTypedReference(orig_signature.inputs[2])
     /\ IsAnonymousReference(orig_signature.output)
     /\ VisitedInputs = 2
     /\ signature.inputs[2].ty.lifetime # signature.inputs[1].ty.lifetime)
    => /\ pc # "collect"
       /\ acc = CollectorNone
       /\ pc = "return" =>
            /\ Unwrap(signature.output).lifetime = signature.inputs[1].ty.lifetime
            /\ Unwrap(signature.output).lifetime # signature.inputs[2].ty.lifetime
            /\ signature.inputs[1].reference # None =>
                 Unwrap(signature.output).lifetime = Unwrap(signature.inputs[1].reference)

\* fn f(&self, x: &'a u8) -> &'_ u8 has returned
C2_Witness ==
    /\ pc = "return"
    /\ orig_signature.inputs =
        <<Receiver(Some(None), FALSE, TypeReference(None, UnitType)),
          Typed(TypeReference(Some("a"), UnitType))>>
    /\ orig_signature.output = Some(TypeReference(Some("_"), UnitType))
    /\ signature.output = Some(TypeReference(Some("__f0"), UnitType))

\* C3 as stated: with no receiver and one typed parameter &'r T, whatever T is,
\* and a return type &'_ U, the returned reference gets 'r.
C3_AnyReferencedType ==
    (/\ pc = "return"
     /\ Len(orig_signature.inputs) = 1
     /\ IsTypedReference(orig_signature.inputs[1])
     /\ NamedSlot(orig_signature.inputs[1].ty.lifetime)
     /\ IsAnonymousReference(orig_signature.output))
    => Unwrap(signature.output).lifetime = orig_signature.inputs[1].ty.lifetime

\* C3 as amended: with no receiver and one typed parameter &'r T where T has no
\* lifetime slot of its own outside the opaque boundaries, and a return type &'_ U,
\* the returned reference gets 'r.
C3_SingleInputElision ==
    (/\ pc = "return"
     /\ Len(orig_signature.inputs) = 1
     /\ IsTypedReference(orig_signature.inputs[1])
     /\ NamedSlot(orig_signature.inputs[1].ty.lifetime)
     /\ Slots(orig_signature.inputs[1].ty.elem) = 0
     /\ IsAnonymousReference(orig_signature.output))
    => Unwrap(signature.output).lifetime = orig_signature.inputs[1].ty.lifetime

\* fn f(x: &'a fn(&'_ u8)) -> &'_ u8 has returned with -> &'a u8
C3_Witness ==
    /\ pc = "return"
    /\ orig_signature.inputs =
        <<Typed(TypeReference(Some("a"), TypeBareFn(TypeReference(Some("_"), UnitType))))>>
    /\ orig_signature.output = Some(TypeReference(Some("_"), UnitType))
    /\ signature.output = Some(TypeReference(Some("a"), UnitType))

\* C4 as stated: with two typed reference parameters of distinct named lifetimes and
\* a return type &'_ U, the returned reference is still &'_ U after the pass.
C4_AnySignature ==
    (/\ pc = "return"
     /\ Len(TypedInputs(orig_signature.inputs)) = 2
     /\ \A i \in 1..2 :
            /\ TypedInputs(orig_signature.inputs)[i].ty.k = "Reference"
            /\ NamedSlot(TypedInputs(orig_signature.inputs)[i].ty.lifetime)
     /\ TypedInputs(orig_signature.inputs)[1].ty.lifetime
            # TypedInputs(orig_signature.inputs)[2].ty.lifetime
     /\ IsAnonymousReference(orig_signature.output))
    => signature.output = orig_signature.output

\* C4 as amended: the same when no receiver comes first that is a reference
\* (&self, &'a self, self: &T).
C4_MultiInputNonElision ==
    (/\ pc = "return"
     /\ Len(TypedInputs(orig_signature.inputs)) = 2
     /\ \A i \in 1..2 :
            /\ TypedInputs(orig_signature.inputs)[i].ty.k = "Reference"
            /\ NamedSlot(TypedInputs(orig_signature.inputs)[i].ty.lifetime)
     /\ TypedInputs(orig_signature.inputs)[1].ty.lifetime
            # TypedInputs(orig_signature.inputs)[2].ty.lifetime
     /\ ~IsReferenceReceiver(orig_signature.inputs[1])
     /\ IsAnonymousReference(orig_signature.output))
    => signature.output = orig_signature.output

\* fn f(self, x: &'a u8, y: &'b u8) -> &'_ u8 has returned, the collector at Multiple
C4_Witness ==
    /\ pc = "return"
    /\ orig_signature.inputs =
        <<Receiver(None, FALSE, UnitType), Typed(TypeReference(Some("a"), UnitType)),
          Typed(TypeReference(Some("b"), UnitType))>>
    /\ orig_signature.output = Some(TypeReference(Some("_"), UnitType))
    /\ acc = CollectorMultiple
    /\ signature.output = Some(TypeReference(Some("_"), UnitType))

\* C5: what lies inside a function pointer, parenthesized generic arguments or a
\* nested item is never touched: every opaque subtree of the inputs, the return
\* type and the self type keeps its input value, and neither the allocator's
\* generics list and index nor the collector's state depend on its content.
C5_OpaqueInviolate ==
    /\ \A i \in 1..Len(signature.inputs) :
            Opaques(signature.inputs[i].ty) = Opaques(orig_signature.inputs[i].ty)
    /\ IsSome(signature.output) =>
            Opaques(Unwrap(signature.output)) = Opaques(Unwrap(orig_signature.output))
    /\ Opaques(self_ty) = Opaques(orig_self_ty)
    /\ (pc = "inputs" /\ arg_index <= Len(signature.inputs)) =>
            AssignLifetimes_visit_fn_arg_mut(visitor, signature.inputs[arg_index]).v
            = AssignLifetimes_visit_fn_arg_mut(
                    visitor, StripArg(signature.inputs[arg_index])).v
    /\ (pc = "collect" /\ arg_index <= Len(signature.inputs)
            /\ signature.inputs[arg_index].k = "Typed") =>
            LifetimeCollector_visit_pat_type(acc, signature.inputs[arg_index])
            = LifetimeCollector_visit_pat_type(acc, StripArg(signature.inputs[arg_index]))
    /\ pc = "impl_items" =>
            AssignLifetimes_visit_type_mut(
                AssignLifetimes_new(HeaderPrefix, impl_generics), self_ty).v
            = AssignLifetimes_visit_type_mut(
                AssignLifetimes_new(HeaderPrefix, impl_generics), Strip(self_ty)).v

\* fn f(x: &'a fn(&'_ u8)) -> &'_ fn(&'_ u8) has returned with -> &'a fn(&'_ u8)
C5_Witness ==
    /\ pc = "return"
    /\ orig_signature.inputs =
        <<Typed(TypeReference(Some("a"), TypeBareFn(TypeReference(Some("_"), UnitType))))>>
    /\ signature.inputs = orig_signature.inputs
    /\ signature.generics = orig_signature.generics
    /\ acc = CollectorSingle("a")
    /\ orig_signature.output =
        Some(TypeReference(Some("_"), TypeBareFn(TypeReference(Some("_"), UnitType))))
    /\ signature.output =
        Some(TypeReference(Some("a"), TypeBareFn(TypeReference(Some("_"), UnitType))))

\* C6: for &self or &'_ self the allocator allocates once (index 0 to 1, one
\* parameter added) and writes the one generated lifetime to the receiver's slot
\* and to its type &Self; for &'a self it allocates nothing and changes neither.
C6_ReceiverAliasing ==
    (/\ InSignature
     /\ VisitedInputs >= 1
     /\ IsSugarReceiver(orig_signature.inputs[1])
     /\ orig_signature.inputs[1].ty.k = "Reference")
    => IF NamedSlot(Unwrap(orig_signature.inputs[1].reference))
       THEN /\ signature.inputs[1] = orig_signature.inputs[1]
            /\ (pc = "inputs" /\ arg_index = 2) =>
                    /\ next_lifetime_index = 0
                    /\ signature.generics = orig_signature.generics
       ELSE /\ signature.inputs[1].reference = Some(Some("__f0"))
            /\ signature.inputs[1].ty.lifetime = Unwrap(signature.inputs[1].reference)
            /\ signature.inputs[1].ty.elem = orig_signature.inputs[1].ty.elem
            /\ (pc = "inputs" /\ arg_index = 2) =>
                    /\ next_lifetime_index = 1
                    /\ signature.generics
                        = <<LifetimeParam("__f0")>> \o orig_signature.generics

\* fn f(&'_ self): the receiver has just been visited
C6_Witness ==
    /\ pc = "inputs"
    /\ arg_index = 2
    /\ orig_signature.inputs[1] =
        Receiver(Some(Some("_")), FALSE, TypeReference(Some("_"), UnitType))
    /\ signature.inputs[1] =
        Receiver(Some(Some("__f0")), FALSE, TypeReference(Some("__f0"), UnitType))
    /\ next_lifetime_index = 1

\* C7: after k allocations of an allocator with prefix p on a generics list G the
\* list is p0, ..., p(k-1) followed by G, for the signatures (p = f) and for the
\* header (p = i), and one more allocation keeps that shape; every signature's
\* allocator starts at index 0.
C7_GenericsShape ==
    /\ InSignature =>
            /\ signature.generics
                = GeneratedBefore("f", next_lifetime_index, orig_signature.generics)
            /\ next_lifetime(visitor).v.generics
                = GeneratedBefore("f", next_lifetime_index + 1, orig_signature.generics)
    /\ pc = "done" =>
            impl_generics = GeneratedBefore("i", next_lifetime_index, orig_impl_generics)
    /\ pc # "done" => impl_generics = orig_impl_generics

\* the second method of the impl block, after two allocations before <'a, T>
C7_Witness ==
    /\ pc = "inputs"
    /\ item_index = 1
    /\ next_lifetime_index = 2
    /\ orig_signature.generics = <<LifetimeParam("a"), TypeParam("T")>>
    /\ signature.generics = <<LifetimeParam("__f0"), LifetimeParam("__f1"),
                              LifetimeParam("a"), TypeParam("T")>>

\* C8 as stated: when the self type contains exactly one reference with the
\* anonymous lifetime and no other anonymous or omitted lifetime, the header's
\* generics list grows by one parameter, named with the header's prefix, and no
\* reference of the self type is anonymous any more: it has that name.
C8_AnyReference ==
    (/\ pc = "done"
     /\ AnonymousReferences(orig_self_ty) = 1
     /\ UnresolvedAnywhere(orig_self_ty) = 1)
    => /\ impl_generics = <<LifetimeParam("__i0")>> \o orig_impl_generics
       /\ Some("__i0") \in ReferenceLifetimes(self_ty)
       /\ Some("_") \notin ReferenceLifetimes(self_ty)

\* C8 as amended: the same for a self type that has, outside function pointers,
\* parenthesized generic arguments and nested items, exactly one reference with the
\* anonymous lifetime and no other anonymous or omitted lifetime.
C8_HeaderSelfType ==
    (/\ pc = "done"
     /\ AnonymousReferencesOutside(orig_self_ty) = 1
     /\ Unresolved(orig_self_ty) = 1)
    => /\ impl_generics = <<LifetimeParam("__i0")>> \o orig_impl_generics
       /\ FilledWith(self_ty, orig_self_ty, "__i0")
       /\ "__i0" # FormatLifetime(SignaturePrefix, 0)

\* impl<'a, T> &'_ fn(&'_ u8) has become impl<'__i0, 'a, T> &'__i0 fn(&'_ u8)
C8_Witness ==
    /\ pc = "done"
    /\ orig_self_ty = TypeReference(Some("_"), TypeBareFn(TypeReference(Some("_"), UnitType)))
    /\ self_ty = TypeReference(Some("__i0"), TypeBareFn(TypeReference(Some("_"), UnitType)))
    /\ impl_generics = <<LifetimeParam("__i0"), LifetimeParam("a"), TypeParam("T")>>

\* C9: an elided output lifetime, when there is one, is a named lifetime written
\* in the inputs as allocated, and once visit_signature_mut has returned every
\* lifetime of the return type that was anonymous or omitted outside the opaque
\* boundaries is that lifetime, so none is left.
C9_CandidateFillsOutput ==
    (InSignature /\ IsSome(elided_output_lifetime))
    => /\ Unwrap(elided_output_lifetime) # "_"
       /\ \E i \in 1..Len(signature.inputs) :
            Unwrap(elided_output_lifetime) \in WrittenLifetimes(signature.inputs[i].ty)
       /\ pc = "return" =>
            /\ Resolved(Unwrap(signature.output))
            /\ FilledWith(Unwrap(signature.output), Unwrap(orig_signature.output),
                          Unwrap(elided_output_lifetime))

\* fn f(x: &u8) -> &'b Foo<'_> has returned with -> &'b Foo<'__f0>
C9_Witness ==
    /\ pc = "return"
    /\ orig_signature.inputs = <<Typed(TypeReference(None, UnitType))>>
    /\ orig_signature.output = Some(TypeReference(Some("b"), TypePath(<<"_">>)))
    /\ elided_output_lifetime = Some("__f0")
    /\ signature.output = Some(TypeReference(Some("b"), TypePath(<<"__f0">>)))

\* C10: the parameters added to a signature's generics list are as many as the
\* anonymous or omitted lifetime references of its receiver and parameters outside
\* the opaque boundaries (&self and its type counting once); the return type adds
\* none.
C10_OneParameterPerReference ==
    InSignature =>
        Len(signature.generics) - Len(orig_signature.generics)
        = UnresolvedInputs(orig_signature.inputs, VisitedInputs)

\* fn f(&self, x: & &'_ u8) -> &'_ fn(&'_ u8) has returned with three parameters added
C10_Witness ==
    /\ pc = "return"
    /\ orig_signature.inputs =
        <<Receiver(Some(None), FALSE, TypeReference(None, UnitType)),
          Typed(TypeReference(None, TypeReference(Some("_"), UnitType)))>>
    /\ orig_signature.output =
        Some(TypeReference(Some("_"), TypeBareFn(TypeReference(Some("_"), UnitType))))
    /\ Len(signature.generics) = Len(orig_signature.generics) + 3

\* C11: no generated name equals another lifetime parameter of its generics list,
\* whether that one was generated too or was there on input.
C11_GeneratedNamesUnique ==
    InSignature =>
        \A i \in 1..next_lifetime_index : \A j \in 1..Len(signature.generics) :
            (i # j /\ signature.generics[j].k = "Lifetime")
                => signature.generics[i].ident # signature.generics[j].ident

\* the receiver rule finds a lifetime: the first input is a receiver whose type
\* is a reference (after allocation every such reference has a lifetime)
ReceiverYields(inputs) == Len(inputs) > 0 /\ IsReferenceReceiver(inputs[1])

\* the distinct lifetimes written in the typed parameters outside the opaque
\* boundaries
DistinctLifetimes(inputs) ==
    UNION {WrittenLifetimes(TypedInputs(inputs)[i].ty) :
                i \in 1..Len(TypedInputs(inputs))}

\* C12: when the receiver yields no lifetime, the collector yields a candidate
\* exactly when the typed parameters, after allocation, mention exactly one
\* distinct lifetime, however often; that lifetime then fills the output.
C12_DistinctIdentityEligibility ==
    (pc = "return" /\ IsSome(orig_signature.output)
                   /\ ~ReceiverYields(signature.inputs)) =>
        LET names == DistinctLifetimes(signature.inputs) IN
        /\ IsSome(elided_output_lifetime) <=> Cardinality(names) = 1
        /\ Cardinality(names) = 1 =>
                /\ names = {Unwrap(elided_output_lifetime)}
                /\ FilledWith(Unwrap(signature.output), Unwrap(orig_signature.output),
                              Unwrap(elided_output_lifetime))

\* the lifetime occurrences of ty outside the opaque boundaries, in the order of
\* the walk: a reference's lifetime before its referenced type
RECURSIVE Occurrences(_)
Occurrences(ty) ==
    CASE ty.k = "Reference" -> ty.lifetime \o Occurrences(ty.elem)
      [] ty.k = "Path" -> ty.lifetimes
      [] ty.k \in OpaqueKinds -> <<>>

\* the same over the typed parameters among the first n inputs
RECURSIVE TypedOccurrences(_, _)
TypedOccurrences(inputs, n) ==
    IF n = 0 THEN <<>>
    ELSE TypedOccurrences(inputs, n - 1) \o
            (IF inputs[n].k = "Typed" THEN Occurrences(inputs[n].ty) ELSE <<>>)

\* the state of a three-state machine that has seen these occurrences
AfterOccurrences(occurrences) ==
    CASE Len(occurrences) = 0 -> CollectorNone
      [] Len(occurrences) = 1 -> CollectorSingle(occurrences[1])
      [] Len(occurrences) > 1 -> CollectorMultiple

AllocationBeforeElision ==
    /\ pc = "inputs" =>
            /\ acc = CollectorNone
            /\ elided_output_lifetime = None
            /\ signature.output = orig_signature.output
    /\ pc \in {"collect", "elide", "return"} =>
            /\ \A i \in 1..Len(signature.inputs) : ResolvedArg(signature.inputs[i])
            /\ Len(signature.generics) = Len(orig_signature.generics)
                    + UnresolvedInputs(orig_signature.inputs, Len(orig_signature.inputs))
            /\ next_lifetime_index
                    = UnresolvedInputs(orig_signature.inputs, Len(orig_signature.inputs))

RECURSIVE Anonymize(_)
Anonymize(ty) ==
    CASE ty.k = "Reference" ->
            TypeReference(IF IsSome(ty.lifetime) THEN ty.lifetime ELSE Some("_"),
                          Anonymize(ty.elem))
      [] ty.k = "Path" -> ty
      [] ty.k \in OpaqueKinds -> ty

\* ty with the lifetimes of the domain of renaming replaced by their images,
\* outside the opaque boundaries
RECURSIVE Rename(_, _)
Rename(ty, renaming) ==
    LET to(lifetime) == IF lifetime \in DOMAIN renaming THEN renaming[lifetime]
                        ELSE lifetime
    IN  CASE ty.k = "Reference" ->
                TypeReference(IF IsSome(ty.lifetime) THEN Some(to(Unwrap(ty.lifetime)))
                              ELSE None,
                              Rename(ty.elem, renaming))
          [] ty.k = "Path" -> TypePath([i \in 1..Len(ty.lifetimes) |-> to(ty.lifetimes[i])])
          [] ty.k \in OpaqueKinds -> ty

\* the input the allocator has just visited is a type subtree: a typed parameter
\* or the type of a receiver written self: T
JustVisitedType ==
    /\ pc = "inputs"
    /\ arg_index > 1
    /\ \/ orig_signature.inputs[arg_index - 1].k = "Typed"
       \/ orig_signature.inputs[arg_index - 1].colon_token

\* the allocator as it was before that visit, given the type with '_ written
\* in place of every omitted lifetime
VisitAnonymized ==
    LET before == UnresolvedInputs(orig_signature.inputs, arg_index - 2) IN
    AssignLifetimes_visit_type_mut(
        [prefix |-> SignaturePrefix,
         generics |-> GeneratedBefore(SignaturePrefix, before, orig_signature.generics),
         next_lifetime_index |-> before],
        Anonymize(orig_signature.inputs[arg_index - 1].ty))

\* the same for the header's self type
VisitAnonymizedSelfTy ==
    AssignLifetimes_visit_type_mut(AssignLifetimes_new(HeaderPrefix, orig_impl_generics),
                                   Anonymize(orig_self_ty))

\* C15 as stated: allocating over a type with lifetimes omitted and over the
\* same type with '_ written in their place gives the same generated name at
\* every position and the same generics list.
C15_SameNameAtEveryPosition ==
    /\ JustVisitedType =>
            /\ signature.inputs[arg_index - 1].ty = VisitAnonymized.node
            /\ signature.generics = VisitAnonymized.v.generics
            /\ next_lifetime_index = VisitAnonymized.v.next_lifetime_index
    /\ pc = "done" =>
            /\ self_ty = VisitAnonymizedSelfTy.node
            /\ impl_generics = VisitAnonymizedSelfTy.v.generics

\* C15: allocating over a type with lifetimes omitted and over the same type
\* with '_ written in their place gives the same generics list and the same
\* number of allocations, and the same type up to a permutation of the names
\* generated in this visit.
C15_SameUpToOrderOfNames ==
    /\ JustVisitedType =>
            LET before == UnresolvedInputs(orig_signature.inputs, arg_index - 2)
                names == {FormatLifetime(SignaturePrefix, i) :
                                i \in before..(next_lifetime_index - 1)}
            IN  /\ signature.generics = VisitAnonymized.v.generics
                /\ next_lifetime_index = VisitAnonymized.v.next_lifetime_index
                /\ \E renaming \in Permutations(names) :
                        signature.inputs[arg_index - 1].ty
                            = Rename(VisitAnonymized.node, renaming)
    /\ pc = "done" =>
            LET names == {FormatLifetime(HeaderPrefix, i) :
                                i \in 0..(Unresolved(orig_self_ty) - 1)}
            IN  /\ impl_generics = VisitAnonymizedSelfTy.v.generics
                /\ \E renaming \in Permutations(names) :
                        self_ty = Rename(VisitAnonymizedSelfTy.node, renaming)

\* x: & &u8 has become &'__f1 &'__f0 u8, where &'_ &'_ u8 becomes &'__f0 &'__f1 u8
C15_Witness ==
    /\ pc = "inputs"
    /\ arg_index = 2
    /\ orig_signature.inputs[1] = Typed(TypeReference(None, TypeReference(None, UnitType)))
    /\ signature.inputs[1] = Typed(TypeReference(Some("__f1"),
                                        TypeReference(Some("__f0"), UnitType)))
    /\ VisitAnonymized.node = TypeReference(Some("__f0"),
                                    TypeReference(Some("__f1"), UnitType))

\* the first input is a receiver written self: T, and the allocator has visited it
TypedReceiverVisited ==
    /\ InSignature
    /\ VisitedInputs >= 1
    /\ orig_signature.inputs[1].k = "Receiver"
    /\ orig_signature.inputs[1].colon_token

\* the receiver written self: T is allocated as a type, without the aliasing of &self
TypedReceiverAllocation ==
    TypedReceiverVisited =>
        LET before == orig_signature.inputs[1]
            after == signature.inputs[1]
            n == Unresolved(before.ty)
        IN  /\ after.reference = before.reference
            /\ after.colon_token
            /\ Resolved(after.ty)
            /\ after.ty = AssignLifetimes_visit_type_mut(
                    AssignLifetimes_new(SignaturePrefix, orig_signature.generics),
                    before.ty).node
            /\ SubSeq(signature.generics, 1, n) = GeneratedBefore(SignaturePrefix, n, <<>>)

\* the candidate the collector's state stands for
FromCollector == IF acc.k = "Single" THEN Some(acc.lifetime) ELSE None

\* C16 as stated: a receiver written self: T, self: &T included, is allocated
\* as a type without aliasing and never supplies the elided output lifetime:
\* the candidate, if any, is the collector's.
C16_TypedReceiverNeverSupplies ==
    /\ TypedReceiverAllocation
    /\ (TypedReceiverVisited /\ pc \in {"elide", "return"}
                             /\ IsSome(orig_signature.output)) =>
            elided_output_lifetime = FromCollector

\* C16: a receiver written self: T is allocated as a type without aliasing;
\* when T is a reference, its lifetime after allocation is the elided output
\* lifetime and the collector is not run; when T is no reference the receiver
\* supplies nothing and the candidate, if any, is the collector's.
C16_TypedReferenceReceiverSupplies ==
    /\ TypedReceiverAllocation
    /\ (TypedReceiverVisited /\ pc \in {"elide", "return"}
                             /\ IsSome(orig_signature.output)) =>
            IF signature.inputs[1].ty.k = "Reference"
            THEN /\ elided_output_lifetime = signature.inputs[1].ty.lifetime
                 /\ acc = CollectorNone
            ELSE elided_output_lifetime = FromCollector

\* fn f(self: &Self, x: &'a u8) -> &'_ u8: the output got the lifetime generated
\* for the receiver's type
C16_Witness ==
    /\ pc = "return"
    /\ orig_signature.inputs = <<Receiver(None, TRUE, TypeReference(None, UnitType)),
                                 Typed(TypeReference(Some("a"), UnitType))>>
    /\ orig_signature.generics = <<>>
    /\ orig_signature.output = Some(TypeReference(Some("_"), UnitType))
    /\ signature.inputs[1] = Receiver(None, TRUE, TypeReference(Some("__f0"), UnitType))
    /\ signature.output = Some(TypeReference(Some("__f0"), UnitType))

\* C17: when the receiver yields no lifetime and the collector ends in None or
\* Multiple, there is no candidate and the return type stays exactly as it was
\* on input, every anonymous or omitted lifetime of it still anonymous or
\* omitted; without a return type nothing but the inputs and the generics list
\* changes. The signature is returned in both cases, and the one call that can
\* panic, Punctuated::insert, always gets an index within the list.
C17_NoCandidateLeavesOutput ==
    /\ (pc = "return" /\ ~ReceiverYields(signature.inputs) /\ acc.k # "Single") =>
            /\ elided_output_lifetime = None
            /\ signature.output = orig_signature.output
            /\ IsSome(signature.output) =>
                    UnresolvedAnywhere(Unwrap(signature.output))
                        = UnresolvedAnywhere(Unwrap(orig_signature.output))
    /\ (InSignature /\ orig_signature.output = None) =>
            /\ signature.output = None
            /\ elided_output_lifetime = None
            /\ acc = CollectorNone
            /\ pc \in {"inputs", "return"}
            /\ self_ty = orig_self_ty
            /\ impl_generics = orig_impl_generics
    /\ InSignature => next_lifetime_index <= Len(signature.generics)

\* fn f(x: &u8, y: &u8) -> &'_ u8: the collector ended in Multiple and the
\* output is still &'_ u8
C17_Witness ==
    /\ pc = "return"
    /\ orig_signature.inputs = <<Typed(TypeReference(None, UnitType)),
                                 Typed(TypeReference(None, UnitType))>>
    /\ acc = CollectorMultiple
    /\ elided_output_lifetime = None
    /\ signature.output = Some(TypeReference(Some("_"), UnitType))

\* C18: a second run of the pass over its own result changes nothing: no
\* parameter is added to a generics list, no lifetime is renamed, and an output
\* the first run left unresolved is left unresolved again. (The result of the
\* first run is the state at "return" and at "done"; the second run is
\* visit_signature_mut and the header's allocator applied to it.)
C18_Idempotent ==
    /\ pc = "return" =>
            /\ signature = visit_signature_mut(orig_signature)
            /\ visit_signature_mut(signature) = signature
    /\ pc = "done" =>
            LET again == AssignLifetimes_visit_type_mut(
                            AssignLifetimes_new(HeaderPrefix, impl_generics), self_ty)
            IN  /\ again.node = self_ty
                /\ again.v.generics = impl_generics

\* a signature with two inputs and the output &u8 has got two generated
\* lifetimes, its output is still unresolved, and a second run leaves all as it is
C18_Witness ==
    /\ pc = "return"
    /\ orig_signature.output = Some(TypeReference(None, UnitType))
    /\ signature.output = orig_signature.output
    /\ Len(orig_signature.inputs) = 2
    /\ signature.inputs # orig_signature.inputs
    /\ Len(signature.generics) = Len(orig_signature.generics) + 2
    /\ visit_signature_mut(signature) = signature

\* new has the shape of old, and every lifetime that is named in old, inside the
\* opaque boundaries too, is the same in new
RECURSIVE NamedKept(_, _)
NamedKept(new, old) ==
    /\ new.k = old.k
    /\ CASE old.k = "Reference" ->
                /\ NamedSlot(old.lifetime) => new.lifetime = old.lifetime
                /\ NamedKept(new.elem, old.elem)
         [] old.k = "Path" ->
                /\ Len(new.lifetimes) = Len(old.lifetimes)
                /\ \A i \in 1..Len(old.lifetimes) :
                        old.lifetimes[i] # "_" => new.lifetimes[i] = old.lifetimes[i]
         [] old.k \in OpaqueKinds -> NamedKept(new.inner, old.inner)

NamedKeptArg(new, old) ==
    /\ new.k = old.k
    /\ NamedKept(new.ty, old.ty)
    /\ old.k = "Receiver" =>
            /\ new.colon_token = old.colon_token
            /\ IsSome(new.reference) = IsSome(old.reference)
            /\ (IsSome(old.reference) /\ NamedSlot(Unwrap(old.reference)))
                    => new.reference = old.reference

\* C19: a lifetime that is named on input is never changed, in the header's
\* self type, the receiver, the parameters or the return type; the elider adds
\* no parameter and leaves the generics list, the receiver and the parameters
\* as the allocator left them: at most the return type differs from the
\* signature after allocation, and only in its anonymous or omitted lifetimes.
C19_NamedKeptElisionAllocatesNothing ==
    /\ NamedKept(self_ty, orig_self_ty)
    /\ InSignature =>
            /\ Len(signature.inputs) = Len(orig_signature.inputs)
            /\ \A i \in 1..Len(signature.inputs) :
                    NamedKeptArg(signature.inputs[i], orig_signature.inputs[i])
            /\ IsSome(signature.output) = IsSome(orig_signature.output)
            /\ IsSome(signature.output) =>
                    NamedKept(Unwrap(signature.output), Unwrap(orig_signature.output))
            /\ SubSeq(signature.generics, next_lifetime_index + 1, Len(signature.generics))
                    = orig_signature.generics
    /\ pc \in {"elide", "return"} =>
            LET assigned == AssignInputs(
                    AssignLifetimes_new(SignaturePrefix, orig_signature.generics),
                    orig_signature.inputs)
            IN  /\ signature.inputs = assigned.node
                /\ signature.generics = assigned.v.generics
                /\ next_lifetime_index = assigned.v.next_lifetime_index
                /\ Len(signature.generics)
                        = Len(orig_signature.generics) + next_lifetime_index
                /\ IsSome(signature.output) =>
                        Opaques(Unwrap(signature.output))
                            = Opaques(Unwrap(orig_signature.output))

\* fn f(x: &'a u8) -> &'b Foo<'_>: the output is &'b Foo<'a>, b and the
\* parameter are as they were and the generics list has got nothing
C19_Witness ==
    /\ pc = "return"
    /\ orig_signature.inputs = <<Typed(TypeReference(Some("a"), UnitType))>>
    /\ signature.inputs = orig_signature.inputs
    /\ signature.generics = orig_signature.generics
    /\ orig_signature.output = Some(TypeReference(Some("b"), TypePath(<<"_">>)))
    /\ signature.output = Some(TypeReference(Some("b"), TypePath(<<"a">>)))

====
